---- MODULE Spec2Model ----
(***************************************************************************)
(* Model of the SMS accountability service in src/app.py: the users and    *)
(* daily_goals tables, the /register and /sms_reply handlers and the       *)
(* scheduled inactivity job check_inactivity_and_notify.                   *)
(*                                                                         *)
(* Text is modelled as a sequence of one-character strings so that the     *)
(* classifier and the parser of sms_reply (the substring tests, split(',') *)
(* strip() and lower()) are computed, not assumed.  A calendar date is a   *)
(* day number.  The goals / completion_status columns hold what            *)
(* json.dumps wrote and json.loads reads back: the list itself.            *)
(***************************************************************************)
EXTENDS Integers, Sequences, FiniteSets, Bags, TLC

\* ------------------------------------------------------------------ bounds
MaxDay == 7         \* the clock stops advancing at this day
MaxRequests == 3    \* inbound requests (/register, /sms_reply) accepted up to BusyDay
BusyDay == 1        \* the last day of the busy opening of a run
QuietRequests == 1  \* inbound requests accepted in a run that goes on past BusyDay

\* --------------------------------------------------------------- constants
InactivityDays == 3   \* timedelta(days=3) in check_inactivity_and_notify

Phones == {"+1555A", "+1555B"}

\* the emergency contacts a phone registers with, in the requests explored
Contacts(p) == IF p = "+1555A" THEN {"+1555X", "+1555Y"} ELSE {"+1555X"}

NULL == -1            \* SQL NULL of a DATE column; never a day number

\* The inbound texts whose handling is explored.
MsgGymRun == <<"g","y","m",","," ","r","u","n">>                \* "gym, run"
MsgGymRunNap == <<"g","y","m",",","r","u","n",",","n","a","p">> \* "gym,run,nap"
MsgYesNoYes == <<"Y","e","s",","," ","N","O"," ",",","y","e","s">> \* "Yes, NO ,yes"
MsgYesGym == <<"y","e","s",","," ","g","y","m">>                \* "yes, gym"
MsgHi == <<"h","i">>                                            \* "hi"

Messages == {MsgGymRun, MsgGymRunNap, MsgYesNoYes, MsgYesGym, MsgHi}

\* the texts a phone sends, in the requests explored
Texts(p) == IF p = "+1555A" THEN Messages ELSE {MsgGymRun}

\* ------------------------------------------------------- string functions
\* str.lower() on one character
LowerChar(c) ==
  CASE c = "Y" -> "y"
    [] c = "E" -> "e"
    [] c = "S" -> "s"
    [] c = "N" -> "n"
    [] c = "O" -> "o"
    [] OTHER -> c

\* str.lower()
lower(s) == [i \in 1..Len(s) |-> LowerChar(s[i])]

\* `sub in s` on strings
contains(s, sub) ==
  \E i \in 1..(Len(s) - Len(sub) + 1) : SubSeq(s, i, i + Len(sub) - 1) = sub

\* str.split(','): the segments between commas, empty ones included
RECURSIVE split(_)
split(s) ==
  IF \E i \in 1..Len(s) : s[i] = ","
  THEN LET i == CHOOSE k \in 1..Len(s) :
                  s[k] = "," /\ \A j \in 1..(k - 1) : s[j] # ","
       IN <<SubSeq(s, 1, i - 1)>> \o split(SubSeq(s, i + 1, Len(s)))
  ELSE <<s>>

\* str.strip(): leading and trailing blanks removed
strip(s) ==
  IF \A i \in 1..Len(s) : s[i] = " "
  THEN <<>>
  ELSE LET a == CHOOSE k \in 1..Len(s) :
                  s[k] # " " /\ \A j \in 1..(k - 1) : s[j] = " "
           b == CHOOSE k \in 1..Len(s) :
                  s[k] # " " /\ \A j \in (k + 1)..Len(s) : s[j] = " "
       IN SubSeq(s, a, b)

YES == <<"y","e","s">>
NO == <<"n","o">>

\* any(word in message_body.lower() for word in ['yes', 'no'])
HasKeyword(m) == contains(lower(m), YES) \/ contains(lower(m), NO)

\* "," in message_body
HasComma(m) == contains(m, <<",">>)

\* (mutant) the separator test taken first, whatever keywords the text holds
ClassifyCommaFirst(m) ==
  IF HasComma(m) THEN "set_goals"
  ELSE IF HasKeyword(m) THEN "report"
  ELSE "freeform"

\* the branch of sms_reply a text takes
Classify(m) ==
  IF HasComma(m) /\ ~HasKeyword(m) THEN "set_goals"
  ELSE IF HasKeyword(m) THEN "report"
  ELSE "freeform"

\* goals = [goal.strip() for goal in message_body.split(',')]
ParseGoals(m) == LET segs == split(m) IN [i \in 1..Len(segs) |-> strip(segs[i])]

\* (mutant) the segments compared with 'yes' without lower()
ParseFlagsCaseSensitive(m) ==
  LET segs == split(m) IN [i \in 1..Len(segs) |-> strip(segs[i]) = YES]

\* responses = [r.strip().lower() ...]; completion_status = [r == 'yes' ...]
ParseFlags(m) ==
  LET segs == split(m) IN [i \in 1..Len(segs) |-> lower(strip(segs[i])) = YES]

\* [False] * n
AllFalse(n) == [i \in 1..n |-> FALSE]

\* ------------------------------------------------------------------- state
VARIABLES
  today,        \* datetime.now().date()
  users,        \* table users: rows [phone_number, emergency_contact, last_response]
  daily_goals,  \* table daily_goals: rows [id, phone_number, date, goals, completion_status]
  id_seq,       \* the SERIAL sequence behind daily_goals.id
  outbox,       \* bag of the texts handed to send_sms: [to, kind, about, day]
  handler,      \* the /sms_reply request being handled
  reg,          \* the outcome of the last /register request
  sweep,        \* the check_inactivity_and_notify job of today
  nreq,         \* inbound requests accepted so far
  jobs          \* the runs of send_morning_message and send_evening_followup

vars == <<today, users, daily_goals, id_seq, outbox, handler, reg, sweep, nreq, jobs>>

\* ---------------------------------------------------------------- tables
UserRow(p) == {u \in users : u.phone_number = p}
Registered(p) == UserRow(p) # {}

GoalRows(rows, p, d) == {r \in rows : r.phone_number = p /\ r.date = d}

\* (mutant) a plain INSERT, without the ON CONFLICT clause and its index
store_user_goals_insert(rows, id, phone_number, date, goals) ==
  rows \cup {[id |-> id, phone_number |-> phone_number, date |-> date,
              goals |-> goals, completion_status |-> AllFalse(Len(goals))]}

\* store_user_goals: INSERT ... ON CONFLICT (phone_number, date) DO UPDATE SET goals
store_user_goals(rows, id, phone_number, date, goals) ==
  IF GoalRows(rows, phone_number, date) # {}
  THEN {IF r \in GoalRows(rows, phone_number, date)
        THEN [r EXCEPT !.goals = goals]
        ELSE r : r \in rows}
  ELSE rows \cup {[id |-> id, phone_number |-> phone_number, date |-> date,
                   goals |-> goals, completion_status |-> AllFalse(Len(goals))]}

\* (mutant) the SELECT without its date condition
get_user_goals_any_date(rows, phone_number, date) ==
  {r \in rows : r.phone_number = phone_number}

\* get_user_goals: the rows SELECTed for (phone_number, date); cur.fetchone() takes one
get_user_goals(rows, phone_number, date) == GoalRows(rows, phone_number, date)

\* update_goal_completion: UPDATE daily_goals SET completion_status WHERE phone, date
update_goal_completion(rows, phone_number, date, completion_status) ==
  {IF r \in GoalRows(rows, phone_number, date)
   THEN [r EXCEPT !.completion_status = completion_status]
   ELSE r : r \in rows}

\* send_sms(to_number, message): the text is handed to the gateway
Sms(to, kind, about) == [to |-> to, kind |-> kind, about |-> about, day |-> today]
send_sms(box, to, kind, about) == box (+) SetToBag({Sms(to, kind, about)})

\* ----------------------------------------------------------------- Init
NoHandler ==
  [req |-> 0, pc |-> "idle", phone_number |-> "", message_body |-> <<>>, today |-> 0,
   branch |-> "", response |-> "", found |-> FALSE, sms |-> ""]

NoReg == [req |-> 0, phone_number |-> "", emergency_contact |-> "", result |-> ""]

\* a run of a job that is not running
NoRun == [pc |-> "idle", users |-> {}, yesterday |-> 0, all_goals |-> <<>>]

\* no job running, no cron trigger fired: each job has the run started by the
\* scheduler ("cron") and the run started by its HTTP entry point ("http")
NoJobs ==
  [morning |-> [cron |-> NoRun, http |-> NoRun],
   evening |-> [cron |-> NoRun, http |-> NoRun],
   fired |-> [day |-> 0, morning |-> 0, evening |-> 0]]

Init ==
  /\ today = 0
  /\ users = {}
  /\ daily_goals = {}
  /\ id_seq = 1
  /\ outbox = EmptyBag
  /\ handler = NoHandler
  /\ reg = NoReg
  /\ sweep = [pc |-> "idle", inactive_users |-> {}]
  /\ nreq = 0
  /\ jobs = NoJobs

\* The runs explored: up to MaxRequests requests within the first BusyDay
\* days, and runs that go on to MaxDay with up to QuietRequests requests.
Accepts == nreq < (IF today <= BusyDay THEN MaxRequests ELSE QuietRequests)

\* ------------------------------------------------------------ /register
\* INSERT INTO users ... ON CONFLICT (phone_number) DO NOTHING
InsertUser(tbl, phone_number, emergency_contact, date) ==
  IF \E u \in tbl : u.phone_number = phone_number
  THEN tbl
  ELSE tbl \cup {[phone_number |-> phone_number,
                  emergency_contact |-> emergency_contact,
                  last_response |-> date]}

\* lines 390-412: the row is inserted unless the phone is there, then the
\* welcome text is sent and the success page returned, in either case
register_user(p, c) ==
  /\ Accepts
  /\ nreq' = nreq + 1
  /\ users' = InsertUser(users, p, c, today)
  /\ outbox' = send_sms(outbox, p, "welcome", p)
  /\ reg' = [req |-> nreq + 1, phone_number |-> p, emergency_contact |-> c,
             result |-> "Registration successful"]
  /\ UNCHANGED <<today, daily_goals, id_seq, handler, sweep, jobs>>

\* ------------------------------------------------------------ /sms_reply
HandlerFree == handler.pc \in {"idle", "done", "error"}

\* lines 224-235: a goal-setting text
SmsReplySetGoals(p, m) ==
  /\ Classify(m) = "set_goals"
  /\ id_seq' = id_seq + 1
  /\ IF Registered(p)
     THEN /\ daily_goals' = store_user_goals(daily_goals, id_seq, p, today, ParseGoals(m))
          /\ handler' = [req |-> nreq + 1, pc |-> "send", phone_number |-> p, message_body |-> m,
                         today |-> today, branch |-> "set_goals",
                         response |-> "goals_saved", found |-> FALSE, sms |-> ""]
     ELSE \* daily_goals.phone_number REFERENCES users: the INSERT raises
          /\ daily_goals' = daily_goals
          /\ handler' = [req |-> nreq + 1, pc |-> "error", phone_number |-> p, message_body |-> m,
                         today |-> today, branch |-> "set_goals",
                         response |-> "", found |-> FALSE, sms |-> ""]

\* the reply chosen by the completion branch
ReportResponse(found) == IF found THEN "update_thanks" ELSE "apology"

\* lines 238-246: a completion report
SmsReplyReport(p, m) ==
  /\ Classify(m) = "report"
  /\ LET yesterday == today - 1
         yesterday_goals == get_user_goals(daily_goals, p, yesterday)
     IN /\ daily_goals' =
             IF yesterday_goals # {}
             THEN update_goal_completion(daily_goals, p, yesterday, ParseFlags(m))
             ELSE daily_goals
        /\ handler' = [req |-> nreq + 1, pc |-> "send", phone_number |-> p, message_body |-> m,
                       today |-> today, branch |-> "report",
                       response |-> ReportResponse(yesterday_goals # {}),
                       found |-> yesterday_goals # {}, sms |-> ""]
  /\ UNCHANGED id_seq

\* lines 248-263: anything else goes to the assistant, whose call may raise
SmsReplyFreeform(p, m) ==
  /\ Classify(m) = "freeform"
  /\ \E ok \in BOOLEAN :
       handler' = [req |-> nreq + 1, pc |-> IF ok THEN "send" ELSE "error",
                   phone_number |-> p, message_body |-> m, today |-> today, branch |-> "freeform",
                   response |-> IF ok THEN "assistant" ELSE "",
                   found |-> get_user_goals(daily_goals, p, today - 1) # {},
                   sms |-> ""]
  /\ UNCHANGED <<daily_goals, id_seq>>

sms_reply(p, m) ==
  /\ Accepts
  /\ HandlerFree
  /\ nreq' = nreq + 1
  /\ \/ SmsReplySetGoals(p, m)
     \/ SmsReplyReport(p, m)
     \/ SmsReplyFreeform(p, m)
  /\ UNCHANGED <<today, users, outbox, reg, sweep, jobs>>

\* line 265: send_sms(phone_number, response); a failed send returns success False
SmsReplySend ==
  /\ handler.pc = "send"
  /\ outbox' = send_sms(outbox, handler.phone_number, handler.response,
                        handler.phone_number)
  /\ \E result \in {"ok", "failed"} :
       handler' = [handler EXCEPT !.pc = "update", !.sms = result]
  /\ UNCHANGED <<today, users, daily_goals, id_seq, reg, sweep, nreq, jobs>>

\* (mutant) the date of the day before written to last_response
UpdateLastResponseYesterday(tbl, phone_number, date) ==
  {IF u.phone_number = phone_number THEN [u EXCEPT !.last_response = date - 1] ELSE u
     : u \in tbl}

\* UPDATE users SET last_response = %s WHERE phone_number = %s
UpdateLastResponse(tbl, phone_number, date) ==
  {IF u.phone_number = phone_number THEN [u EXCEPT !.last_response = date] ELSE u
     : u \in tbl}

\* (mutant) last_response written only when the reply went out
SmsReplyUpdateIfSent ==
  /\ handler.pc = "update"
  /\ users' = IF handler.sms = "ok"
              THEN UpdateLastResponse(users, handler.phone_number, today)
              ELSE users
  /\ handler' = [handler EXCEPT !.pc = "done"]
  /\ UNCHANGED <<today, daily_goals, id_seq, outbox, reg, sweep, nreq, jobs>>

\* lines 267-275
SmsReplyUpdate ==
  /\ handler.pc = "update"
  /\ users' = UpdateLastResponse(users, handler.phone_number, today)
  /\ handler' = [handler EXCEPT !.pc = "done"]
  /\ UNCHANGED <<today, daily_goals, id_seq, outbox, reg, sweep, nreq, jobs>>

\* ------------------------------------------ check_inactivity_and_notify
\* (mutant) a window of a week instead of three days
InactiveUsersWeek(tbl, date) ==
  {u \in tbl : u.last_response = NULL \/ u.last_response < date - 7}

\* (mutant) <= in place of <
InactiveUsersInclusive(tbl, date) ==
  {u \in tbl : u.last_response = NULL \/ u.last_response <= date - InactivityDays}

\* (mutant) the SELECT without its WHERE clause
InactiveUsersAll(tbl, date) == tbl

\* WHERE u.last_response < %s OR u.last_response IS NULL
InactiveUsers(tbl, date) ==
  {u \in tbl : u.last_response = NULL \/ u.last_response < date - InactivityDays}

\* lines 152-163: the job of the day starts and selects its users
SweepStart ==
  /\ sweep.pc = "idle"
  /\ sweep' = [pc |-> "running", inactive_users |-> InactiveUsers(users, today)]
  /\ UNCHANGED <<today, users, daily_goals, id_seq, outbox, handler, reg, nreq, jobs>>

\* (mutant) the loop writes the row it read at the start back to users
SweepNotifyWriteBack ==
  /\ sweep.pc = "running"
  /\ \E u \in sweep.inactive_users :
       /\ outbox' = send_sms(outbox, u.emergency_contact, "alert", u.phone_number)
       /\ users' = {r \in users : r.phone_number # u.phone_number} \cup {u}
       /\ sweep' = [sweep EXCEPT !.inactive_users = @ \ {u}]
  /\ UNCHANGED <<today, daily_goals, id_seq, handler, reg, nreq, jobs>>

\* lines 165-173: one pass of the loop
SweepNotify ==
  /\ sweep.pc = "running"
  /\ \E u \in sweep.inactive_users :
       /\ outbox' = send_sms(outbox, u.emergency_contact, "alert", u.phone_number)
       /\ sweep' = [sweep EXCEPT !.inactive_users = @ \ {u}]
  /\ UNCHANGED <<today, users, daily_goals, id_seq, handler, reg, nreq, jobs>>

\* lines 175-176
SweepFinish ==
  /\ sweep.pc = "running"
  /\ sweep.inactive_users = {}
  /\ sweep' = [sweep EXCEPT !.pc = "done"]
  /\ UNCHANGED <<today, users, daily_goals, id_seq, outbox, handler, reg, nreq, jobs>>

\* midnight, after the day's cron trigger (hour=12) has run its job
NextDay ==
  /\ sweep.pc = "done"
  /\ today < (IF nreq <= QuietRequests THEN MaxDay ELSE BusyDay)
  /\ today' = today + 1
  /\ sweep' = [pc |-> "idle", inactive_users |-> {}]
  /\ UNCHANGED <<users, daily_goals, id_seq, outbox, handler, reg, nreq, jobs>>

Register == \E p \in Phones : \E c \in Contacts(p) : register_user(p, c)
SmsReply == \E p \in Phones : \E m \in Texts(p) : sms_reply(p, m)

Next ==
  \/ Register
  \/ SmsReply
  \/ SmsReplySend
  \/ SmsReplyUpdate
  \/ SweepStart
  \/ SweepNotify
  \/ SweepFinish
  \/ NextDay

Spec == Init /\ [][Next]_vars

\* ------------------------------------- the morning and evening jobs
\* The jobs below only read the tables and send texts.  Spec leaves them
\* out; SpecRestart runs them with everything above, from a database that
\* earlier runs of the service have filled.

\* the add_job entries of send_evening_followup (10h, 15h, 20h)
EveningRuns == 3

MsgGymBlankRun == <<"g","y","m",",",",","r","u","n">>   \* "gym,,run"

AllMessages == Messages \cup {MsgGymBlankRun}

\* the texts a phone sends, in the requests SpecRestart explores
RestartTexts(p) == IF p = "+1555A" THEN AllMessages ELSE {MsgGymRun}

\* the runs of a cron entry that the scheduler has started today
CronFired(job) == IF jobs.fired.day = today THEN jobs.fired[job] ELSE 0

MarkFired(job) ==
  [day |-> today,
   morning |-> CronFired("morning") + (IF job = "morning" THEN 1 ELSE 0),
   evening |-> CronFired("evening") + (IF job = "evening" THEN 1 ELSE 0)]

\* The cron triggers of a day fire in the order of their hours: 7h morning,
\* 10h evening, 12h inactivity, 15h evening, 20h evening; they are hours
\* apart, and a scheduled run has ended when the next trigger fires.
MorningDue ==
  CronFired("morning") = 0 /\ CronFired("evening") = 0 /\ sweep.pc = "idle"

EveningDue ==
  /\ CronFired("morning") = 1
  /\ jobs.morning.cron.pc = "idle"
  /\ jobs.evening.cron.pc = "idle"
  /\ \/ CronFired("evening") = 0 /\ sweep.pc = "idle"
     \/ CronFired("evening") \in 1..(EveningRuns - 1) /\ sweep.pc = "done"

NoonDue == CronFired("evening") = 1 /\ jobs.evening.cron.pc = "idle"

MidnightDue == CronFired("evening") = EveningRuns /\ jobs.evening.cron.pc = "idle"

\* lines 94-99 and 106-113: SELECT phone_number FROM users; yesterday
StartedRun == [pc |-> "running", users |-> {u.phone_number : u \in users},
               yesterday |-> today - 1, all_goals |-> <<>>]

\* scheduler.add_job(send_morning_message, 'cron', hour=7)
CronMorning ==
  /\ MorningDue
  /\ jobs.morning.cron.pc = "idle"
  /\ jobs' = [jobs EXCEPT !.morning.cron = StartedRun, !.fired = MarkFired("morning")]
  /\ UNCHANGED <<today, users, daily_goals, id_seq, outbox, handler, reg, sweep, nreq>>

\* GET /test_daily_message: send_morning_message() in the request's thread
test_daily_message ==
  /\ Accepts
  /\ nreq' = nreq + 1
  /\ jobs.morning.http.pc = "idle"
  /\ jobs' = [jobs EXCEPT !.morning.http = StartedRun]
  /\ UNCHANGED <<today, users, daily_goals, id_seq, outbox, handler, reg, sweep>>

\* lines 101-103: one pass of the loop of send_morning_message
MorningNotify ==
  \E slot \in {"cron", "http"} :
    /\ jobs.morning[slot].pc = "running"
    /\ \E p \in jobs.morning[slot].users :
         /\ outbox' = send_sms(outbox, p, "morning", p)
         /\ jobs' = [jobs EXCEPT !.morning[slot].users = @ \ {p}]
    /\ UNCHANGED <<today, users, daily_goals, id_seq, handler, reg, sweep, nreq>>

MorningFinish ==
  \E slot \in {"cron", "http"} :
    /\ jobs.morning[slot].pc = "running"
    /\ jobs.morning[slot].users = {}
    /\ jobs' = [jobs EXCEPT !.morning[slot] = NoRun]
    /\ UNCHANGED <<today, users, daily_goals, id_seq, outbox, handler, reg, sweep, nreq>>

Range(q) == {q[i] : i \in 1..Len(q)}

\* lines 143-145: for goal, status in zip(goals, completion_status)
RECURSIVE ScanRow(_, _, _)
ScanRow(acc, r, i) ==
  IF i > Len(r.goals) \/ i > Len(r.completion_status)
  THEN acc
  ELSE ScanRow(IF ~r.completion_status[i] /\ r.goals[i] \notin Range(acc)
               THEN Append(acc, r.goals[i]) ELSE acc,
               r, i + 1)

\* lines 132-140: the rows of the phone with date < %s, ORDER BY date DESC
RECURSIVE ScanDates(_, _, _, _)
ScanDates(acc, rows, phone_number, d) ==
  IF d < 0 THEN acc
  ELSE ScanDates(IF GoalRows(rows, phone_number, d) = {} THEN acc
                 ELSE ScanRow(acc, CHOOSE r \in GoalRows(rows, phone_number, d) : TRUE, 1),
                 rows, phone_number, d - 1)

\* get_incomplete_goals(phone_number), called on the date `date`
get_incomplete_goals(rows, phone_number, date) ==
  ScanDates(<<>>, rows, phone_number, date - 1)

\* lines 115-122: all_goals of one user
AllGoals(rows, phone_number, yesterday, date) ==
  LET yesterday_goals == get_user_goals(rows, phone_number, yesterday)
      first == IF yesterday_goals = {} THEN <<>>
               ELSE (CHOOSE r \in yesterday_goals : TRUE).goals
  IN first \o get_incomplete_goals(rows, phone_number, date)

\* scheduler.add_job(send_evening_followup, 'cron', hour=10 / 15 / 20)
CronEvening ==
  /\ EveningDue
  /\ jobs' = [jobs EXCEPT !.evening.cron = StartedRun, !.fired = MarkFired("evening")]
  /\ UNCHANGED <<today, users, daily_goals, id_seq, outbox, handler, reg, sweep, nreq>>

\* GET /test_evening_message: send_evening_followup() in the request's thread
test_evening_message ==
  /\ Accepts
  /\ nreq' = nreq + 1
  /\ jobs.evening.http.pc = "idle"
  /\ jobs' = [jobs EXCEPT !.evening.http = StartedRun]
  /\ UNCHANGED <<today, users, daily_goals, id_seq, outbox, handler, reg, sweep>>

\* lines 114-127: one pass of the loop of send_evening_followup
EveningNotify ==
  \E slot \in {"cron", "http"} :
    /\ jobs.evening[slot].pc = "running"
    /\ \E p \in jobs.evening[slot].users :
         LET all_goals == AllGoals(daily_goals, p, jobs.evening[slot].yesterday, today)
         IN /\ outbox' = IF all_goals # <<>>
                         THEN send_sms(outbox, p, "review", p) ELSE outbox
            /\ jobs' = [jobs EXCEPT !.evening[slot].users = @ \ {p},
                                    !.evening[slot].all_goals = all_goals]
    /\ UNCHANGED <<today, users, daily_goals, id_seq, handler, reg, sweep, nreq>>

EveningFinish ==
  \E slot \in {"cron", "http"} :
    /\ jobs.evening[slot].pc = "running"
    /\ jobs.evening[slot].users = {}
    /\ jobs' = [jobs EXCEPT !.evening[slot] = NoRun]
    /\ UNCHANGED <<today, users, daily_goals, id_seq, outbox, handler, reg, sweep, nreq>>

\* the inactivity job at its hour, and midnight after the last trigger
NoonSweepStart == NoonDue /\ SweepStart
Midnight == MidnightDue /\ NextDay

RestartSmsReply == \E p \in Phones : \E m \in RestartTexts(p) : sms_reply(p, m)

\* The service starts again on the eve of the last day, over the database
\* and the gateway log that this history has left: on day 0 both phones register and +1555A
\* texts "gym,run,nap"; on day 1 +1555A texts "Yes, NO ,yes"; on day 5
\* +1555B texts "gym, run" and the inactivity job alerts the contact of
\* +1555A.  (The log lists the texts of the handlers and of that job.)
InitRestart ==
  /\ today = MaxDay - 1
  /\ users = {[phone_number |-> "+1555A", emergency_contact |-> "+1555X",
               last_response |-> 1],
              [phone_number |-> "+1555B", emergency_contact |-> "+1555X",
               last_response |-> 5]}
  /\ daily_goals =
       {[id |-> 1, phone_number |-> "+1555A", date |-> 0,
         goals |-> ParseGoals(MsgGymRunNap), completion_status |-> <<TRUE, FALSE, TRUE>>],
        [id |-> 2, phone_number |-> "+1555B", date |-> 5,
         goals |-> ParseGoals(MsgGymRun), completion_status |-> <<FALSE, FALSE>>]}
  /\ id_seq = 3
  /\ outbox = SetToBag({
       [to |-> "+1555A", kind |-> "welcome", about |-> "+1555A", day |-> 0],
       [to |-> "+1555B", kind |-> "welcome", about |-> "+1555B", day |-> 0],
       [to |-> "+1555A", kind |-> "goals_saved", about |-> "+1555A", day |-> 0],
       [to |-> "+1555A", kind |-> "update_thanks", about |-> "+1555A", day |-> 1],
       [to |-> "+1555B", kind |-> "goals_saved", about |-> "+1555B", day |-> 5],
       [to |-> "+1555X", kind |-> "alert", about |-> "+1555A", day |-> 5]})
  /\ handler = NoHandler
  /\ reg = NoReg
  /\ sweep = [pc |-> "idle", inactive_users |-> {}]
  /\ nreq = 0
  /\ jobs = NoJobs

NextAll ==
  \/ Register
  \/ RestartSmsReply
  \/ SmsReplySend
  \/ SmsReplyUpdate
  \/ NoonSweepStart
  \/ SweepNotify
  \/ SweepFinish
  \/ Midnight
  \/ CronMorning
  \/ test_daily_message
  \/ MorningNotify
  \/ MorningFinish
  \/ CronEvening
  \/ test_evening_message
  \/ EveningNotify
  \/ EveningFinish

SpecRestart == InitRestart /\ [][NextAll]_vars

\* ===================================================================
\* Properties
\* ===================================================================

\* the step of sms_reply that accepts request (p, m)
SmsReplyStep(p, m) ==
  /\ handler'.req # handler.req
  /\ handler'.phone_number = p
  /\ handler'.message_body = m

\* the step of register_user that accepts a request for phone p
RegisterStep(p) == reg'.req # reg.req /\ reg'.phone_number = p

\* the job check_inactivity_and_notify of day d has run to its end
SweepDone(d) == d < today \/ (d = today /\ sweep.pc = "done")

RECURSIVE Copies(_)
Copies(S) ==
  IF S = {} THEN 0
  ELSE LET s == CHOOSE x \in S : TRUE IN CopiesIn(s, outbox) + Copies(S \ {s})

\* the alerts about user row u handed to send_sms for u's emergency contact
\* on the days D
AlertCount(u, D) ==
  Copies({s \in BagToSet(outbox) :
            /\ s.kind = "alert"
            /\ s.about = u.phone_number
            /\ s.to = u.emergency_contact
            /\ s.day \in D})

ReplyKinds == {"goals_saved", "update_thanks", "apology", "assistant"}

\* no text of the phone of user row u has got as far as a reply
NoReply(u) ==
  /\ \A s \in BagToSet(outbox) : ~(s.to = u.phone_number /\ s.kind \in ReplyKinds)
  /\ ~(handler.phone_number = u.phone_number /\ handler.pc \in {"send", "update", "done"})

\* ------------------------------------------------------------------ C1
\* C1 (as claimed): in every reachable state every stored GoalRecord has as
\* many completion_status entries as goals.
C1_LengthInvariant ==
  \A r \in daily_goals : Len(r.goals) = Len(r.completion_status)

C4_KeywordBeatsComma ==
  [][\A p \in Phones, m \in Messages :
       (SmsReplyStep(p, m) /\ HasComma(m) /\ HasKeyword(m))
         => /\ handler'.branch = "report"
            /\ GoalRows(daily_goals', p, today) = GoalRows(daily_goals, p, today)]_vars

\* a text with a comma and a keyword has been handled to the end
C4_Witness ==
  /\ handler.pc = "done"
  /\ HasComma(handler.message_body)
  /\ HasKeyword(handler.message_body)
  /\ handler.branch = "report"

\* ------------------------------------------------------------------ C5
\* C5: a goal-setting text of a registered user leaves exactly one
\* GoalRecord for (phone_number, today), whose goals are the parsed list of
\* that text; and when the record already holds that list (the same text
\* sent again), the table is left as it was.
C5_SetGoalsOverwrites ==
  [][\A p \in Phones, m \in Messages :
       (SmsReplyStep(p, m) /\ Classify(m) = "set_goals" /\ Registered(p))
         => /\ Cardinality(GoalRows(daily_goals', p, today)) = 1
            /\ \A r \in GoalRows(daily_goals', p, today) : r.goals = ParseGoals(m)
            /\ (\E r \in GoalRows(daily_goals, p, today) : r.goals = ParseGoals(m))
                 => daily_goals' = daily_goals]_vars

\* a user's second goal-setting text of one day has been handled to the end
C5_Witness ==
  /\ handler.pc = "done"
  /\ handler.branch = "set_goals"
  /\ CopiesIn([to |-> handler.phone_number, kind |-> "goals_saved",
               about |-> handler.phone_number, day |-> handler.today], outbox) >= 2
  /\ \E r \in GoalRows(daily_goals, handler.phone_number, handler.today) :
       r.goals = ParseGoals(handler.message_body)

\* ------------------------------------------------------------------ C6
\* C6 (as claimed): a goal-setting text of a registered user that finds no
\* GoalRecord for today, or one whose completion_status length differs from
\* the new goal count, leaves the record with the new goals and an all-false
\* completion_status of the new goal count.
C6_SetGoalsResetsStatus ==
  [][\A p \in Phones, m \in Messages :
       ( /\ SmsReplyStep(p, m) /\ Classify(m) = "set_goals" /\ Registered(p)
         /\ \A r \in GoalRows(daily_goals, p, today) :
              Len(r.completion_status) # Len(ParseGoals(m)) )
         => \A r \in GoalRows(daily_goals', p, today) :
              /\ r.goals = ParseGoals(m)
              /\ r.completion_status = AllFalse(Len(ParseGoals(m)))]_vars

\* ------------------------------------------------------------------ C7
\* C7: a completion report of n segments from a user whose GoalRecord of
\* yesterday has n goals sets that record's completion_status to the list
\* whose i-th entry is true iff the i-th segment, trimmed and lower-cased, is
\* "yes", and changes nothing else in the table.
C7_ReportSetsFlags ==
  [][\A p \in Phones, m \in Messages :
       ( /\ SmsReplyStep(p, m) /\ Classify(m) = "report"
         /\ \E r \in GoalRows(daily_goals, p, today - 1) : Len(r.goals) = Len(split(m)) )
         => daily_goals' =
              {IF r.phone_number = p /\ r.date = today - 1
               THEN [r EXCEPT !.completion_status =
                       [i \in 1..Len(split(m)) |-> lower(strip(split(m)[i])) = YES]]
               ELSE r : r \in daily_goals}]_vars

\* a report of as many segments as yesterday's goals, some of them "yes" in
\* another case or with blanks around, has been handled to the end
C7_Witness ==
  /\ handler.pc = "done"
  /\ handler.branch = "report"
  /\ \E i \in 1..Len(split(handler.message_body)) :
       /\ split(handler.message_body)[i] # YES
       /\ lower(strip(split(handler.message_body)[i])) = YES
  /\ \E r \in GoalRows(daily_goals, handler.phone_number, handler.today - 1) :
       /\ Len(r.goals) = Len(split(handler.message_body))
       /\ \E i \in 1..Len(r.completion_status) : r.completion_status[i]

\* ------------------------------------------------------------------ C8
\* C8 (as claimed): a completion report of k flags against a GoalRecord of
\* yesterday with n > k goals sets the first k completion_status entries from
\* the flags, keeps the entries k+1..n and the length n.
C8_MismatchAlignsFirstK ==
  [][\A p \in Phones, m \in Messages :
       (SmsReplyStep(p, m) /\ Classify(m) = "report")
         => \A r \in GoalRows(daily_goals, p, today - 1) :
              Len(split(m)) < Len(r.goals)
                => \E q \in GoalRows(daily_goals', p, today - 1) :
                     /\ Len(q.completion_status) = Len(r.goals)
                     /\ \A i \in 1..Len(r.goals) :
                          q.completion_status[i] =
                            IF i <= Len(split(m)) THEN ParseFlags(m)[i]
                            ELSE r.completion_status[i]]_vars

\* ------------------------------------------------------------------ C9
\* C9: a completion report from a sender without a GoalRecord of yesterday
\* leaves the goal table as it was, and the reply handed to send_sms is the
\* apology.
C9_NoPriorGoals ==
  [][\A p \in Phones, m \in Messages :
       /\ ( /\ SmsReplyStep(p, m) /\ Classify(m) = "report"
            /\ GoalRows(daily_goals, p, today - 1) = {} )
            => /\ daily_goals' = daily_goals
               /\ handler'.pc = "send"
               /\ handler'.response = "apology"
       /\ (handler.pc = "send" /\ handler'.pc = "update")
            => /\ outbox' = outbox (+) SetToBag({[to |-> handler.phone_number,
                                                  kind |-> handler.response,
                                                  about |-> handler.phone_number,
                                                  day |-> today]})
               /\ handler'.response = handler.response]_vars

\* the apology has been sent for a report that found no record of yesterday
C9_Witness ==
  /\ handler.pc = "done"
  /\ handler.branch = "report"
  /\ GoalRows(daily_goals, handler.phone_number, handler.today - 1) = {}
  /\ \E s \in BagToSet(outbox) : s.to = handler.phone_number /\ s.kind = "apology"

\* ----------------------------------------------------------------- C10
\* C10 (as claimed): a registration whose phone_number is already in the
\* users table changes no user row, sends no text and returns an outcome
\* other than success.
C10_DuplicateRejected ==
  [][\A p \in Phones :
       (RegisterStep(p) /\ Registered(p))
         => /\ users' = users
            /\ outbox' = outbox
            /\ reg'.result # "Registration successful"]_vars

\* ----------------------------------------------------------------- C11
\* C11: when the handling of a text of a registered user ends, whatever
\* branch it took, the user's last_response is the date of that moment and
\* the user is not among the inactive users of a sweep of that day or the
\* next; and the handling of a freeform text changes no GoalRecord.
C11_ReplyRefreshesLastResponse ==
  [][/\ (handler.pc = "update" /\ handler'.pc = "done")
          => \A u \in users' :
               u.phone_number = handler.phone_number
                 => /\ u.last_response = today
                    /\ u \notin InactiveUsers(users', today)
                    /\ u \notin InactiveUsers(users', today + 1)
     /\ (handler'.branch = "freeform" /\ handler' # handler)
          => daily_goals' = daily_goals]_vars

\* a freeform text of a registered user has been handled to the end today
C11_Witness ==
  /\ handler.pc = "done"
  /\ handler.branch = "freeform"
  /\ \E u \in users : u.phone_number = handler.phone_number /\ u.last_response = today

\* ----------------------------------------------------------------- C12
\* C12 (as claimed): every text of a registered user that is handled gets
\* exactly one reply handed to send_sms, writes at most one GoalRecord and
\* updates exactly one user row.
C12_ResultGuarantee ==
  [][/\ \A p \in Phones, m \in Messages :
          (SmsReplyStep(p, m) /\ Registered(p))
            => /\ handler'.pc = "send"
               /\ Cardinality(daily_goals' \ daily_goals) <= 1
               /\ outbox' = outbox
               /\ users' = users
     /\ (handler.pc = "send" /\ handler' # handler)
          => /\ BagCardinality(outbox') = BagCardinality(outbox) + 1
             /\ handler'.pc = "update"
             /\ daily_goals' = daily_goals /\ users' = users
     /\ (handler.pc = "update" /\ handler' # handler /\ Registered(handler.phone_number))
          => /\ handler'.pc = "done"
             /\ Cardinality(users' \ users) <= 1
             /\ daily_goals' = daily_goals /\ outbox' = outbox]_vars

\* ----------------------------------------------------------------- C13
\* C13 (as claimed): when the assistant call fails for a freeform text the
\* handler still goes on to send a (static) reply and to update last_response:
\* no freeform text ends the handler in an error.
C13_AssistantFailureAbsorbed ==
  [][\A p \in Phones, m \in Messages :
       (SmsReplyStep(p, m) /\ Classify(m) = "freeform")
         => handler'.pc = "send" /\ handler'.response # ""]_vars

\* ----------------------------------------------------------------- C14
\* C14: when send_sms fails for the reply, the goal table keeps what the
\* handler wrote, the handler is not in an error state and goes on to set
\* last_response to the date of that moment.
C14_TransportFailureAbsorbed ==
  [][/\ (handler.pc = "send" /\ handler' # handler)
          => /\ handler'.pc = "update"
             /\ handler'.sms \in {"ok", "failed"}
             /\ daily_goals' = daily_goals
     /\ (handler.pc = "update" /\ handler.sms = "failed" /\ handler' # handler)
          => /\ handler'.pc = "done"
             /\ daily_goals' = daily_goals
             /\ \A u \in users' :
                  u.phone_number = handler.phone_number => u.last_response = today]_vars

\* a goal-setting text whose reply failed to send has been handled to the
\* end: its record is stored and last_response is set
C14_Witness ==
  /\ handler.pc = "done"
  /\ handler.sms = "failed"
  /\ handler.branch = "set_goals"
  /\ \E r \in GoalRows(daily_goals, handler.phone_number, handler.today) :
       r.goals = ParseGoals(handler.message_body)
  /\ \E u \in users : u.phone_number = handler.phone_number /\ u.last_response = today

\* the texts handed to send_sms in the step
Sent == BagToSet(outbox' (-) outbox)

\* the row of the users table is within the inactivity window on the date
InWindow(u, date) == u.last_response # NULL /\ u.last_response >= date - InactivityDays

\* C15: a reply and an inactivity sweep acting on the same user lose no
\* update: the step that ends the reply's UPDATE leaves the sender's row with
\* last_response = the date of the step, no step of the sweep changes the
\* users table, and while the handler rests after its reply the sender's row
\* keeps that value, whatever the sweep had read before.
C15_NoLostUpdate ==
  [][/\ (handler.pc = "update" /\ handler'.pc = "done")
          => \A u \in users' : u.phone_number = handler.phone_number
                                  => u.last_response = today
     /\ sweep' # sweep => users' = users
     /\ (handler.pc = "done" /\ handler' = handler) => users' = users]_vars

\* the sweep holds a row of +1555A read before the reply of +1555A was
\* processed, and the reply has finished
C15_Witness ==
  /\ sweep.pc = "running"
  /\ handler.pc = "done"
  /\ handler.phone_number = "+1555A"
  /\ \E u \in sweep.inactive_users :
       /\ u.phone_number = "+1555A"
       /\ u \notin users
       /\ \E r \in users : r.phone_number = "+1555A" /\ r.last_response = today

\* C16: no job has two executions running at once, the one started by the
\* scheduler and the one started through the HTTP entry point included.
C16_NonReentrant ==
  /\ ~(jobs.morning.cron.pc = "running" /\ jobs.morning.http.pc = "running")
  /\ ~(jobs.evening.cron.pc = "running" /\ jobs.evening.http.pc = "running")

\* C17: the sweep selects no user whose last_response is within the window
\* of its date, alerts only the contacts of the users it selected, each of
\* them outside the window as long as no handler has changed the row since,
\* and changes no row of users.
C17_SweepLeavesActiveUsers ==
  [][sweep' # sweep =>
       /\ users' = users
       /\ (sweep.pc = "idle" /\ sweep'.pc = "running")
            => \A u \in users : InWindow(u, today) => u \notin sweep'.inactive_users
       /\ \A s \in Sent :
            /\ s.kind = "alert"
            /\ \E u \in sweep.inactive_users :
                 /\ u.phone_number = s.about
                 /\ u.emergency_contact = s.to
                 /\ u \in users => ~InWindow(u, today)]_vars

\* a sweep with no request since the start has ended: the contact of the
\* silent +1555A was alerted today, and nobody about +1555B, who replied two
\* days ago or less
C17_Witness ==
  /\ sweep.pc = "done"
  /\ nreq = 0
  /\ \E u \in users : u.phone_number = "+1555B" /\ InWindow(u, today)
  /\ \E s \in BagToSet(outbox) : s.kind = "alert" /\ s.about = "+1555A" /\ s.day = today
  /\ ~\E s \in BagToSet(outbox) : s.kind = "alert" /\ s.about = "+1555B" /\ s.day = today

\* C18: when an alert is handed to send_sms, the row of the user it is about
\* is outside the inactivity window at that moment.
C18_NoStaleAlert ==
  [][\A s \in Sent :
       s.kind = "alert" =>
         \A u \in users : u.phone_number = s.about => ~InWindow(u, today)]_vars

\* C19: the list of goals that the evening follow-up composes for a user
\* holds each goal text once.
C19_ComposedOnce ==
  \A slot \in {"cron", "http"} :
    LET g == jobs.evening[slot].all_goals
    IN \A i, j \in 1..Len(g) : g[i] = g[j] => i = j

\* C20: no stored goal is the empty string.
C20_NoEmptyGoal ==
  \A r \in daily_goals : \A i \in 1..Len(r.goals) : r.goals[i] # <<>>

================================================================
